---- MODULE Spec2Model ----
(***************************************************************************)
(* Model of instana/fsm.py: the discovery/announce state machine of the    *)
(* sensor (class Fsm).  The machine is a fysom state machine with three    *)
(* events; every step (lookup_agent_host, announce_sensor,                 *)
(* start_metric_reporting) is an "on<event>" callback, which fysom runs    *)
(* AFTER it has moved `current` to the event's destination.  Steps run on  *)
(* threads (the Startup timer, retry timers, or the caller of reset()) and *)
(* block in network calls; an action of the model is the code one thread   *)
(* runs between two blocking calls.                                        *)
(***************************************************************************)
EXTENDS Integers, Sequences, FiniteSets, Bags, TLC

\* ---------------------------------------------------------------- bounds
MaxResets == 1

\* ------------------------------------------------------------- constants
AGENT_HEADER == "Instana Agent"
AGENT_DEFAULT_HOST == "localhost"
AGENT_DEFAULT_PORT == 42699

NoneVal == "None"          \* Python's None
Unset == "<unset>"         \* a variable absent from os.environ

\* os.environ / sensor options the model draws from
EnvHosts == {Unset, "10.0.0.5"}
EnvIps == {Unset, "10.0.0.6"}
EnvPorts == {Unset, "8080", "abc"}
OptHosts == {"", "opthost"}
OptPorts == {0, 9090}

Envs == [host : EnvHosts, ip : EnvIps, port : EnvPorts, optHost : OptHosts, optPort : OptPorts]

\* the configurations the machine is run under: nothing set, the host variable
\* alone, with a numeric port, with a non-numeric port, and the sensor options
MachineEnvs ==
  {e \in Envs : /\ e.ip = Unset
                /\ (e.optHost = "") = (e.optPort = 0)
                /\ e.host # Unset => e.optHost = ""
                /\ e.port # Unset => e.host # Unset}

\* what agent.request_header can return for the "Server" header
Headers == {AGENT_HEADER, "nginx", NoneVal}
\* what get_default_gateway can return: None (exception), "" (no default route), an address
Gateways == {NoneVal, "", "192.168.1.1"}

States == {"none", "found", "announced", "good2go"}
ThreadNames == {"Startup", "agent_lookup", "announce", "caller"}

VARIABLES
  current,          \* self.fsm.current
  timers,           \* bag of armed, not yet fired threading.Timer objects (by name)
  threads,          \* bag of threads executing a step, blocked in a network call
  agentHost,        \* self.agent.host
  agentPort,        \* self.agent.port
  agentFrom,        \* TRUE once self.agent.set_from(b) has stored the agent identity
  meterRuns,        \* number of calls of self.agent.sensor.meter.run()
  warnedPeriodic,   \* Fsm.warnedPeriodic
  warnings,         \* number of logger.warn("... couldn't be found ...") records
  resets,           \* number of reset() calls so far
  up,               \* TRUE from the moment the agent answers every request
  env,              \* os.environ and sensor options (fixed during a run)
  procfs,           \* os.path.exists("/proc/")
  sched,            \* /proc/<pid>/sched as this process sees it (fixed during a run)
  probe,            \* arguments and results of the last check_host call (history)
  pid,              \* Discovery.pid of the last record announce_sensor built (0: none yet)
  last              \* what the last executed piece of code did (history)

vars == <<current, timers, threads, agentHost, agentPort, agentFrom, meterRuns,
          warnedPeriodic, warnings, resets, up, env, procfs, sched, probe, pid, last>>

\* ------------------------------------------------------------ fysom table
\* "events": (name, src, dst); "*" is fysom's wildcard source
Events == {<<"lookup", "*", "found">>,
           <<"announce", "found", "announced">>,
           <<"ready", "announced", "good2go">>}

\* Fysom.can(event): the event has a row for the current state or a wildcard row
Can(event, src) == \E r \in Events : r[1] = event /\ r[2] \in {src, "*"}

DstBack(event, src) == IF event = "announce" THEN "none" ELSE "found"

DstStuck(event, src) == IF event = "ready" THEN src
                        ELSE (CHOOSE r \in Events : r[1] = event /\ r[2] \in {src, "*"})[3]

\* destination of the event fired in state src
Dst(event, src) == (CHOOSE r \in Events : r[1] = event /\ r[2] \in {src, "*"})[3]

\* onchangestate -> printstatechange: one debug record per state change
\* (fysom skips onchangestate when src = dst)
StateChange(event, src) ==
  IF Dst(event, src) # src
  THEN <<[kind |-> "debug", event |-> event, src |-> src, dst |-> Dst(event, src)]>>
  ELSE <<>>

\* the on<event> callback (lookup_agent_host, announce_sensor,
\* start_metric_reporting) starts running
Callback(event, src) ==
  [kind |-> "callback", event |-> event, src |-> src, dst |-> Dst(event, src)]

FireCallbackFirst(event, src) == <<Callback(event, src)>> \o StateChange(event, src)

\* what firing a legal event does, in order, once `current` has moved:
\* onchangestate (only on a change of state), then the on<event> callback
Fire(event, src) == StateChange(event, src) \o <<Callback(event, src)>>

\* ------------------------------------------------------ endpoint resolver
\* int(s) of the port variable: a number, or ValueError
ParseInt(s) == IF s = "8080" THEN [err |-> FALSE, val |-> 8080]
               ELSE [err |-> TRUE, val |-> 0]

PortOf(e) == IF e.port # Unset
             THEN LET p == ParseInt(e.port) IN [err |-> p.err, port |-> p.val]
             ELSE [err |-> FALSE, port |-> AGENT_DEFAULT_PORT]

GetAgentHostPortNoEnv(e) ==
  IF e.ip # Unset
  THEN [err |-> PortOf(e).err, host |-> e.ip, port |-> PortOf(e).port]
  ELSE IF e.optHost # ""
  THEN [err |-> FALSE, host |-> e.optHost,
        port |-> IF e.optPort # 0 THEN e.optPort ELSE AGENT_DEFAULT_PORT]
  ELSE [err |-> FALSE, host |-> AGENT_DEFAULT_HOST, port |-> AGENT_DEFAULT_PORT]

GetAgentHostPortPortAlways(e) ==
  IF e.host # Unset
  THEN [err |-> PortOf(e).err, host |-> e.host, port |-> PortOf(e).port]
  ELSE IF e.ip # Unset
  THEN [err |-> PortOf(e).err, host |-> e.ip, port |-> PortOf(e).port]
  ELSE IF e.optHost # ""
  THEN [err |-> PortOf(e).err, host |-> e.optHost,
        port |-> IF e.port # Unset THEN PortOf(e).port
                 ELSE IF e.optPort # 0 THEN e.optPort ELSE AGENT_DEFAULT_PORT]
  ELSE [err |-> FALSE, host |-> AGENT_DEFAULT_HOST, port |-> AGENT_DEFAULT_PORT]

\* Fsm.__get_agent_host_port; err = TRUE when int() raises ValueError
GetAgentHostPort(e) ==
  IF e.host # Unset
  THEN [err |-> PortOf(e).err, host |-> e.host, port |-> PortOf(e).port]
  ELSE IF e.ip # Unset
  THEN [err |-> PortOf(e).err, host |-> e.ip, port |-> PortOf(e).port]
  ELSE IF e.optHost # ""
  THEN [err |-> FALSE, host |-> e.optHost,
        port |-> IF e.optPort # 0 THEN e.optPort ELSE AGENT_DEFAULT_PORT]
  ELSE [err |-> FALSE, host |-> AGENT_DEFAULT_HOST, port |-> AGENT_DEFAULT_PORT]

\* -------------------------------------------------- process identity
\* the pid this process sees for itself: os.getpid()
OsGetpid == 7

MaxLine == 4
Alphabet == {"(", "1", "2", ","}
Lines == UNION {[1..n -> Alphabet] : n \in 0..MaxLine}

\* /proc/<pid>/sched: is it a file, does open()/readline() succeed, its first line
Scheds == {s \in [isfile : BOOLEAN, readable : BOOLEAN, line : Lines] :
             (~s.isfile \/ ~s.readable) => s.line = <<>>}

\* the sched file the machine is run with: first line "(12,"
MachineScheds == {[isfile |-> TRUE, readable |-> TRUE, line |-> <<"(", "1", "2", ",">>]}

IsDigit(c) == c \in {"0", "1", "2", "3", "4", "5", "6", "7", "8", "9"}
DigitVal(c) == CASE c = "0" -> 0 [] c = "1" -> 1 [] c = "2" -> 2 [] c = "3" -> 3
                 [] c = "4" -> 4 [] c = "5" -> 5 [] c = "6" -> 6 [] c = "7" -> 7
                 [] c = "8" -> 8 [] c = "9" -> 9

\* int(digits), most significant digit first
RECURSIVE IntOf(_)
IntOf(ds) == IF ds = <<>> THEN 0
             ELSE 10 * IntOf(SubSeq(ds, 1, Len(ds) - 1)) + DigitVal(ds[Len(ds)])

\* index of the last digit of the run of digits that starts at i (\d+ is greedy)
RECURSIVE RunEnd(_, _)
RunEnd(line, i) == IF i + 1 <= Len(line) /\ IsDigit(line[i + 1])
                   THEN RunEnd(line, i + 1) ELSE i

\* does r'\((\d+),' match with its "(" at position i
MatchAt(line, i) ==
  /\ line[i] = "("
  /\ i + 1 <= Len(line) /\ IsDigit(line[i + 1])
  /\ RunEnd(line, i + 1) + 1 <= Len(line)
  /\ line[RunEnd(line, i + 1) + 1] = ","

\* re.search(r'\((\d+),', line): the group of the leftmost match, or None
RECURSIVE SearchFrom(_, _)
SearchFrom(line, i) ==
  IF i > Len(line) THEN [found |-> FALSE, group |-> <<>>]
  ELSE IF MatchAt(line, i)
  THEN [found |-> TRUE, group |-> SubSeq(line, i + 1, RunEnd(line, i + 1))]
  ELSE SearchFrom(line, i + 1)

GetRealPidNoComma(hasProc, s) ==
  IF hasProc /\ s.isfile /\ s.readable
       /\ \E i \in 1..Len(s.line) : s.line[i] = "(" /\ i + 1 <= Len(s.line) /\ IsDigit(s.line[i + 1])
  THEN LET i == CHOOSE i \in 1..Len(s.line) :
                  /\ s.line[i] = "(" /\ i + 1 <= Len(s.line) /\ IsDigit(s.line[i + 1])
                  /\ \A k \in 1..(i - 1) :
                       ~(s.line[k] = "(" /\ k + 1 <= Len(s.line) /\ IsDigit(s.line[k + 1]))
       IN IntOf(SubSeq(s.line, i + 1, RunEnd(s.line, i + 1)))
  ELSE OsGetpid

\* Fsm.__get_real_pid: any exception in the try block (open fails, no match so
\* g is None) leaves pid None, and None becomes os.getpid()
GetRealPid(hasProc, s) ==
  IF hasProc /\ s.isfile /\ s.readable /\ SearchFrom(s.line, 1).found
  THEN IntOf(SearchFrom(s.line, 1).group)
  ELSE OsGetpid

\* ------------------------------------------------------------- utilities
\* the gateway was not queried by this call
NotQueried == "-"

\* one check_host call: host and port probed, header returned, and what
\* get_default_gateway returned after it
Probe(host, port, hdr, gw) == [host |-> host, port |-> port, hdr |-> hdr, gw |-> gw]

RecordEndpointNothing(host, port) == [host |-> agentHost, port |-> agentPort]

\* lines 83-84 / 92-93: self.agent.host = host; self.agent.port = port
RecordEndpoint(host, port) == [host |-> host, port |-> port]

GatewayThreadDefaultPort(th, gw) ==
  [th EXCEPT !.pc = "check_gateway", !.host = gw, !.port = AGENT_DEFAULT_PORT]

\* lines 88-90: host = get_default_gateway(); check_host(host, port) with the same port
GatewayThread(th, gw) == [th EXCEPT !.pc = "check_gateway", !.host = gw]

One(x) == SetToBag({x})

\* Python truthiness of the gateway string: None and "" are false
Truthy(s) == s \notin {NoneVal, ""}

\* outcomes the agent can produce; once `up`, only the healthy ones
HeaderOutcomes == IF up THEN {AGENT_HEADER} ELSE Headers
ConnectOutcomes == IF up THEN {TRUE} ELSE BOOLEAN
ResponseOutcomes == IF up THEN {TRUE} ELSE BOOLEAN

\* the first blocking call of announce_sensor: s.connect when /proc exists
AnnouncePc == IF procfs THEN "connect" ELSE "request_response"

\* what a piece of code did: the thread it ran on, the retries it armed and their
\* label, the exception that ended it, the debug records of printstatechange,
\* and the state the machine was in when it started
Hist(op, name, armed, label, err, dbg) ==
  [op |-> op, thread |-> name, armed |-> armed, label |-> label, err |-> err, dbg |-> dbg,
   at |-> current]

\* ------------------------------------------------------------------ Init
\* the state after Fsm.__init__, with os.environ / options in E and the sched file in S
InitWith(E, S) ==
  /\ current = "none"
  /\ timers = One("Startup")
  /\ threads = EmptyBag
  /\ agentHost = NoneVal
  /\ agentPort = 0
  /\ agentFrom = FALSE
  /\ meterRuns = 0
  /\ warnedPeriodic = FALSE
  /\ warnings = 0
  /\ resets = 0
  /\ up = FALSE
  /\ env \in E
  /\ procfs \in BOOLEAN
  /\ sched \in S
  /\ probe = Probe("-", 0, "-", NotQueried)
  /\ pid = 0
  /\ last = Hist("init", "-", 0, "-", "none", <<>>)

\* the state after Fsm.__init__
Init == InitWith(MachineEnvs, MachineScheds)

\* ----------------------------------------------------- pieces of the steps
\* lookup_agent_host line 79: resolve the endpoint, then block in check_host
EnterLookup(name, op, dbg) ==
  LET r == GetAgentHostPort(env) IN
  IF r.err
  THEN /\ threads' = threads
       /\ last' = Hist(op, name, 0, "-", "ValueError", dbg)
  ELSE /\ threads' = threads (+) One([name |-> name, pc |-> "check_host",
                                      host |-> r.host, port |-> r.port])
       /\ last' = Hist(op, name, 0, "-", "none", dbg)

\* self.fsm.lookup(): wildcard source, so always legal; state moves first,
\* then onlookup = lookup_agent_host runs on the firing thread.  Fired in
\* 'found' (src = dst) fysom still runs the callback but not onchangestate.
FsmLookup(name, op) ==
  /\ current' = Dst("lookup", current)
  /\ EnterLookup(name, op, Fire("lookup", current))

\* lines 83-86 / 92-95: record the endpoint, fire announce; fysom raises
\* FysomError when announce is not legal in the current state.  A legal
\* announce runs announce_sensor up to its first blocking call, which builds
\* the Discovery record (pid = __get_real_pid()).
LookupMatch(th, host, op) ==
  /\ agentHost' = RecordEndpoint(host, th.port).host
  /\ agentPort' = RecordEndpoint(host, th.port).port
  /\ IF Can("announce", current)
     THEN /\ current' = Dst("announce", current)
          /\ threads' = (threads (-) One(th)) (+)
                          One([th EXCEPT !.pc = AnnouncePc, !.host = host])
          /\ pid' = GetRealPid(procfs, sched)
          /\ last' = Hist(op, th.name, 0, "-", "none", Fire("announce", current))
     ELSE /\ current' = current
          /\ threads' = threads (-) One(th)
          /\ pid' = pid
          /\ last' = Hist(op, th.name, 0, "-", "FysomError", <<>>)
  /\ UNCHANGED <<timers, agentFrom, meterRuns, warnedPeriodic, warnings>>

\* lines 97-102: the latch is read here; when it is still False the thread goes
\* on to logger.warn (LogWarn), otherwise it calls
\* schedule_retry(lookup_agent_host, e, "agent_lookup") and returns
LookupFail(th, op) ==
  /\ IF warnedPeriodic = FALSE
     THEN /\ threads' = (threads (-) One(th)) (+)
                          One([th EXCEPT !.pc = IF op = "gateway_failed"
                                                 THEN "warn_gateway" ELSE "warn"])
          /\ last' = Hist("lookup_warn", th.name, 0, "-", "none", <<>>)
          /\ UNCHANGED timers
     ELSE /\ timers' = timers (+) One("agent_lookup")
          /\ threads' = threads (-) One(th)
          /\ last' = Hist(op, th.name, 1, "agent_lookup", "none", <<>>)
  /\ UNCHANGED <<current, agentHost, agentPort, agentFrom, meterRuns, warnedPeriodic,
                 warnings, pid>>

\* --------------------------------------------------------------- actions
\* t.Timer(2, self.fsm.lookup) fires
StartupTimer ==
  /\ BagIn("Startup", timers)
  /\ timers' = timers (-) One("Startup")
  /\ FsmLookup("Startup", "startup")
  /\ UNCHANGED <<agentHost, agentPort, agentFrom, meterRuns, warnedPeriodic,
                 warnings, resets, up, env, procfs, sched, probe, pid>>

\* Fsm.reset(): self.fsm.lookup() on the caller's thread
Reset ==
  /\ resets < MaxResets
  /\ resets' = resets + 1
  /\ FsmLookup("caller", "reset")
  /\ UNCHANGED <<timers, agentHost, agentPort, agentFrom, meterRuns, warnedPeriodic,
                 warnings, up, env, procfs, sched, probe, pid>>

\* the "agent_lookup" retry timer fires: lookup_agent_host(e), no fysom event
LookupRetry ==
  /\ BagIn("agent_lookup", timers)
  /\ timers' = timers (-) One("agent_lookup")
  /\ EnterLookup("agent_lookup", "lookup_retry", <<>>)
  /\ UNCHANGED <<current, agentHost, agentPort, agentFrom, meterRuns, warnedPeriodic,
                 warnings, resets, up, env, procfs, sched, probe, pid>>

\* the "announce" retry timer fires: announce_sensor(e), no fysom event
AnnounceRetry ==
  /\ BagIn("announce", timers)
  /\ timers' = timers (-) One("announce")
  /\ threads' = threads (+) One([name |-> "announce", pc |-> AnnouncePc,
                                 host |-> agentHost, port |-> 0])
  /\ pid' = GetRealPid(procfs, sched)
  /\ last' = Hist("announce_retry", "announce", 0, "-", "none", <<>>)
  /\ UNCHANGED <<current, agentHost, agentPort, agentFrom, meterRuns, warnedPeriodic,
                 warnings, resets, up, env, procfs, sched, probe>>

\* check_host(host, port) of the resolved host returns h (lines 81-102);
\* gw is what get_default_gateway returns when it is called
CheckHost ==
  \E th \in BagToSet(threads) : \E h \in HeaderOutcomes : \E gw \in Gateways :
    /\ th.pc = "check_host"
    /\ IF h = AGENT_HEADER
       THEN /\ gw = NoneVal
            /\ probe' = Probe(th.host, th.port, h, NotQueried)
            /\ LookupMatch(th, th.host, "lookup_match")
       ELSE IF procfs /\ Truthy(gw)
       THEN /\ probe' = Probe(th.host, th.port, h, gw)
            /\ threads' = (threads (-) One(th)) (+) One(GatewayThread(th, gw))
            /\ last' = Hist("gateway_query", th.name, 0, "-", "none", <<>>)
            /\ UNCHANGED <<current, timers, agentHost, agentPort, agentFrom, meterRuns,
                           warnedPeriodic, warnings, pid>>
       ELSE /\ procfs \/ gw = NoneVal
            /\ probe' = Probe(th.host, th.port, h, IF procfs THEN gw ELSE NotQueried)
            /\ LookupFail(th, "lookup_failed")
    /\ UNCHANGED <<resets, up, env, procfs, sched>>

\* check_host(gateway, port) returns h (lines 90-102)
CheckGateway ==
  \E th \in BagToSet(threads) : \E h \in HeaderOutcomes :
    /\ th.pc = "check_gateway"
    /\ probe' = Probe(th.host, th.port, h, NotQueried)
    /\ IF h = AGENT_HEADER
       THEN LookupMatch(th, th.host, "gateway_match")
       ELSE LookupFail(th, "gateway_failed")
    /\ UNCHANGED <<resets, up, env, procfs, sched>>

\* lines 98-102 on the thread that read the latch as False: logger.warn, set
\* the latch, schedule_retry(lookup_agent_host, e, "agent_lookup")
LogWarn ==
  \E th \in BagToSet(threads) :
    /\ th.pc \in {"warn", "warn_gateway"}
    /\ warnings' = warnings + 1
    /\ warnedPeriodic' = TRUE
    /\ timers' = timers (+) One("agent_lookup")
    /\ threads' = threads (-) One(th)
    /\ last' = Hist(IF th.pc = "warn" THEN "lookup_failed" ELSE "gateway_failed",
                    th.name, 1, "agent_lookup", "none", <<>>)
    /\ UNCHANGED <<current, agentHost, agentPort, agentFrom, meterRuns, resets, up,
                   env, procfs, sched, probe, pid>>

\* lines 157-162: s.connect((agent.host, 42699)) and os.readlink; either may
\* raise, and nothing in announce_sensor catches it
Connect ==
  \E th \in BagToSet(threads) : \E ok \in ConnectOutcomes :
    /\ th.pc = "connect"
    /\ IF ok
       THEN /\ threads' = (threads (-) One(th)) (+) One([th EXCEPT !.pc = "request_response"])
            /\ last' = Hist("connect_ok", th.name, 0, "-", "none", <<>>)
       ELSE /\ threads' = threads (-) One(th)
            /\ last' = Hist("connect_failed", th.name, 0, "-", "socket.error", <<>>)
    /\ UNCHANGED <<current, timers, agentHost, agentPort, agentFrom, meterRuns,
                   warnedPeriodic, warnings, resets, up, env, procfs, sched, probe, pid>>

\* lines 164-175: the PUT returns body b (nonempty = TRUE)
RequestResponse ==
  \E th \in BagToSet(threads) : \E b \in ResponseOutcomes :
    /\ th.pc = "request_response"
    /\ threads' = threads (-) One(th)
    /\ IF b
       THEN /\ agentFrom' = TRUE
            /\ IF Can("ready", current)
               THEN /\ current' = Dst("ready", current)
                    /\ meterRuns' = meterRuns + 1
                    /\ last' = Hist("announce_ok", th.name, 0, "-", "none",
                                    Fire("ready", current))
               ELSE /\ UNCHANGED <<current, meterRuns>>
                    /\ last' = Hist("announce_ok", th.name, 0, "-", "FysomError", <<>>)
            /\ UNCHANGED timers
       ELSE /\ timers' = timers (+) One("announce")
            /\ last' = Hist("announce_failed", th.name, 1, "announce", "none", <<>>)
            /\ UNCHANGED <<current, meterRuns, agentFrom>>
    /\ UNCHANGED <<agentHost, agentPort, warnedPeriodic, warnings, resets, up, env,
                   procfs, sched, probe, pid>>

\* from now on the agent answers every probe, connection and announce
AgentUp ==
  /\ up = FALSE
  /\ up' = TRUE
  /\ UNCHANGED <<current, timers, threads, agentHost, agentPort, agentFrom, meterRuns,
                 warnedPeriodic, warnings, resets, env, procfs, sched, probe, pid, last>>

Next ==
  \/ StartupTimer
  \/ Reset
  \/ LookupRetry
  \/ AnnounceRetry
  \/ CheckHost
  \/ CheckGateway
  \/ LogWarn
  \/ Connect
  \/ RequestResponse
  \/ AgentUp

Spec == Init /\ [][Next]_vars

TypeOK ==
  /\ current \in States
  /\ meterRuns \in Nat
  /\ resets \in 0..MaxResets
  /\ \A th \in BagToSet(threads) : th.name \in ThreadNames

\* ------------------------------------------------- liveness specification
\* No reset(); threading.Timer objects that were started do fire, and the
\* blocking network calls of a step return.
NextLive ==
  \/ StartupTimer
  \/ LookupRetry
  \/ AnnounceRetry
  \/ CheckHost
  \/ CheckGateway
  \/ LogWarn
  \/ Connect
  \/ RequestResponse
  \/ AgentUp

LiveSpec ==
  /\ Init
  /\ [][NextLive]_vars
  /\ WF_vars(StartupTimer)
  /\ WF_vars(LookupRetry)
  /\ WF_vars(AnnounceRetry)
  /\ WF_vars(CheckHost)
  /\ WF_vars(CheckGateway)
  /\ WF_vars(LogWarn)
  /\ WF_vars(Connect)
  /\ WF_vars(RequestResponse)

\* ---------------------------------------------------------------- claims
\* position of a state on Unresolved -> Found -> Announced -> Ready
Rank(s) == CASE s = "none" -> 0 [] s = "found" -> 1 [] s = "announced" -> 2 [] s = "good2go" -> 3

\* C1: as long as reset() has never been called, no step takes the state to
\* an earlier one on none -> found -> announced -> good2go.
C1_MonotonicWithoutReset == [][resets' = 0 => Rank(current') >= Rank(current)]_vars

\* a run without reset() that went all the way to good2go
C1_Witness == resets = 0 /\ current = "good2go"

\* C2: a lookup attempt that fails with process introspection unavailable arms
\* exactly one retry labelled "agent_lookup" and returns with the machine in
\* the initial state (none).
C2_FailedLookupStaysUnresolved ==
  (last.op = "lookup_failed" /\ ~procfs)
    => (last.armed = 1 /\ last.label = "agent_lookup" /\ current = "none")

\* C3: an announce attempt that gets an empty response arms exactly one retry
\* tagged "announce" and returns with the machine in found, not announced.
C3_FailedAnnounceStaysFound ==
  last.op = "announce_failed"
    => (last.armed = 1 /\ last.label = "announce" /\ current = "found")

C5_ReadyStartsMeterOnce ==
  resets = 0
    => /\ last.op = "announce_ok"
            => (current = "good2go" /\ meterRuns = 1 /\ last.err = "none")
       /\ meterRuns > 0 => current = "good2go"
       /\ current = "good2go" => meterRuns = 1

\* the first non-empty announce response of a run without reset()
C5_Witness == resets = 0 /\ last.op = "announce_ok" /\ meterRuns = 1

\* C6: over the lifetime of the machine, whatever the resets, meter.run() is
\* called at most once.
C6_MeterRunsAtMostOnce == meterRuns <= 1

\* C7: at most one "agent_lookup" retry and at most one "announce" retry is
\* pending in every reachable state.
C7_OneRetryPerStep ==
  /\ CopiesIn("agent_lookup", timers) <= 1
  /\ CopiesIn("announce", timers) <= 1

\* C8: once the startup timer has fired, the state is good2go, or a step is
\* executing, or a retry is pending.
C8_AlwaysRetrying ==
  ~BagIn("Startup", timers)
    => \/ current = "good2go"
       \/ BagCardinality(threads) > 0
       \/ BagCardinality(timers) > 0

\* C9: under fair firing of timers, once the agent answers every request (and
\* the endpoint configuration is usable) the machine eventually reaches
\* good2go without reset(), whatever failed before.
C9_EventuallyReady ==
  (up /\ ~GetAgentHostPort(env).err) ~> (current = "good2go")

\* C10: reset() puts the machine back in the initial state (none); it is not
\* in found before a probe of the new attempt has matched.
C10_ResetReentersUnresolved == last.op = "reset" => current = "none"

\* ------------------------------------------- specifications of the resolvers
\* the lookup/announce cycle without reset(), under every combination of the
\* environment variables and sensor options
ResolveSpec == InitWith(Envs, MachineScheds) /\ [][NextLive]_vars

\* the lookup/announce cycle without reset(), with the built-in endpoint and
\* every sched file
PidSpec ==
  InitWith({[host |-> Unset, ip |-> Unset, port |-> Unset, optHost |-> "", optPort |-> 0]},
           Scheds) /\ [][NextLive]_vars

\* C11: at most one step (lookup or announce attempt) is executing at any moment.
C11_NoOverlappingSteps == BagCardinality(threads) <= 1

\* C12: no step, and so no blocking probe, runs on the thread of a caller:
\* every executing step is on a timer thread.
C12_StepsOnTimerThreads == \A th \in BagToSet(threads) : th.name # "caller"

\* C13: whenever meter.run() is called, host and port have been recorded by a
\* matching lookup, the agent identity is stored and the state is good2go;
\* and once it has been called, no step writes host, port or identity as
\* long as reset() has not been called.
C13_MutateThenSignal ==
  [][/\ meterRuns' > meterRuns
          => /\ agentHost' # NoneVal /\ agentPort' # 0
             /\ agentFrom' /\ current' = "good2go"
             /\ resets' = 0 => (/\ agentHost' = probe'.host /\ agentPort' = probe'.port
                                /\ probe'.hdr = AGENT_HEADER)
     /\ (meterRuns > 0 /\ resets' = 0)
          => /\ agentHost' = agentHost /\ agentPort' = agentPort /\ agentFrom' = agentFrom
             /\ last' # last
                  => last'.op \notin {"lookup_match", "gateway_match", "announce_ok"}]_vars

\* meter.run() has been called with endpoint and identity in place
C13_Witness ==
  meterRuns = 1 /\ agentFrom /\ agentHost # NoneVal /\ current = "good2go" /\ last.op = "announce_ok"

\* C14: the "couldn't be found" warning is logged at most once, whatever the
\* resets and interleavings.
C14_WarnedAtMostOnce == warnings <= 1

\* first-match-wins reference: the sources of a host, in order of precedence
HostSources(e) ==
  <<[set |-> e.host # Unset, host |-> e.host, from |-> "env"],
    [set |-> e.ip # Unset, host |-> e.ip, from |-> "env"],
    [set |-> e.optHost # "", host |-> e.optHost, from |-> "options"],
    [set |-> TRUE, host |-> AGENT_DEFAULT_HOST, from |-> "default"]>>

FirstSource(e) ==
  HostSources(e)[CHOOSE i \in 1..4 : HostSources(e)[i].set
                                      /\ \A k \in 1..(i - 1) : ~HostSources(e)[k].set]

RefPort(e) ==
  CASE FirstSource(e).from = "env" /\ e.port = "8080" -> 8080
    [] FirstSource(e).from = "env" /\ e.port = Unset -> AGENT_DEFAULT_PORT
    [] FirstSource(e).from = "options" /\ e.optPort # 0 -> e.optPort
    [] FirstSource(e).from = "options" /\ e.optPort = 0 -> AGENT_DEFAULT_PORT
    [] FirstSource(e).from = "default" -> AGENT_DEFAULT_PORT

\* the port variable is consulted and is not a number
PortUnusable(e) == FirstSource(e).from = "env" /\ e.port \notin {Unset, "8080"}

\* C15: the endpoint a lookup attempt probes is the one the first-match-wins
\* reference gives: host from INSTANA_AGENT_HOST, else INSTANA_AGENT_IP, else
\* the options, else the default; the port variable only with an env host, the
\* options port only with the options host and when non-zero, else the default.
C15_ResolutionIsFirstMatchWins ==
  /\ \A th \in BagToSet(threads) :
       th.pc = "check_host" => (th.host = FirstSource(env).host /\ th.port = RefPort(env))
  /\ last.op \in {"startup", "lookup_retry"}
       => (last.err = "none") = ~PortUnusable(env)

\* a probe of the primary env host although alias and options are set as well
C15_Witness ==
  /\ env.host # Unset /\ env.ip # Unset /\ env.optHost # "" /\ env.optPort # 0
  /\ env.port = "8080"
  /\ \E th \in BagToSet(threads) : th.pc = "check_host" /\ th.host = env.host /\ th.port = 8080

\* C16: endpoint resolution never fails: every lookup attempt that starts goes
\* on to probe the resolved endpoint.
C16_ResolutionNeverFails ==
  last.op \in {"startup", "reset", "lookup_retry"}
    => /\ last.err = "none"
       /\ \E th \in BagToSet(threads) : th.pc = "check_host" /\ th.name = last.thread

RECURSIVE Pow10(_)
Pow10(n) == IF n = 0 THEN 1 ELSE 10 * Pow10(n - 1)

RECURSIVE SumDigits(_, _, _)
SumDigits(line, k, j) ==
  IF k > j THEN 0 ELSE DigitVal(line[k]) * Pow10(j - k) + SumDigits(line, k + 1, j)

\* "(" at i, digits up to j, "," right after
PatternAt(line, i, j) ==
  /\ i < j /\ j + 1 <= Len(line)
  /\ line[i] = "(" /\ line[j + 1] = ","
  /\ \A k \in (i + 1)..j : IsDigit(line[k])

HasPattern(line) == \E i, j \in 1..Len(line) : PatternAt(line, i, j)

\* the number of the leftmost occurrence of the pattern
PatternNumber(line) ==
  LET i == CHOOSE i \in 1..Len(line) :
             /\ \E j \in 1..Len(line) : PatternAt(line, i, j)
             /\ \A k \in 1..(i - 1) : \A j \in 1..Len(line) : ~PatternAt(line, k, j)
      j == CHOOSE j \in 1..Len(line) : PatternAt(line, i, j)
  IN SumDigits(line, i + 1, j)

\* C18: the pid put in the Discovery record is os.getpid() whenever /proc or
\* the sched file is absent, the file is unreadable or its first line lacks
\* "(<digits>,", and the number in the line otherwise; and every announce
\* attempt that starts gets past the resolvers to its first network call.
C18_PidDegrades ==
  /\ pid # 0
       => pid = IF procfs /\ sched.isfile /\ sched.readable /\ HasPattern(sched.line)
                THEN PatternNumber(sched.line) ELSE OsGetpid
  /\ (last.op = "announce_retry"
        \/ (last.op \in {"lookup_match", "gateway_match"} /\ last.err = "none"))
       => /\ pid # 0
          /\ \E th \in BagToSet(threads) : th.pc = AnnouncePc /\ th.name = last.thread

\* a sched line without the pattern: the record carries os.getpid()
C18_Witness ==
  /\ procfs /\ sched.isfile /\ sched.readable
  /\ sched.line = <<"(", "1", "2">>
  /\ pid = OsGetpid

\* C19: no step ends with fysom's illegal-event error: announce is fired only
\* in found and ready only in announced.
C19_EventsAlwaysLegal == last.err # "FysomError"

====
